---- MODULE Spec2Model ----
(***************************************************************************)
(* Model of setup_gui.py: the Flask setup form of the LustyLibrary         *)
(* installer.  Text is a sequence of fragments: each whitespace character  *)
(* is a fragment of its own, "\n" separates lines, and the fixed prefixes  *)
(* the code tests with startswith() fall on fragment boundaries.           *)
(***************************************************************************)
EXTENDS Integers, Sequences, FiniteSets, TLC

VARIABLES
    DEFAULT_CONFIG,  \* the module-level dict (its nested dicts are mutable)
    configFile,      \* /opt/lustylibrary-installer/config.yml
    hostapd,         \* /etc/hostapd/hostapd.conf
    dhcpcd,          \* /etc/dhcpcd.conf
    composeFile,     \* /home/pi/library-server/docker-compose.yml
    dirs,            \* directories created under media_root
    syncScript,      \* /usr/local/bin/sync_from_unraid.sh
    reqs,            \* number of requests handled so far
    req,             \* the last request: method, form, injected faults
    cfg,             \* the document load_config() gave the last request
    resp,            \* the last response
    raised,          \* the operation whose exception ended the last request
    done,            \* the file operations the last request completed
    procs,           \* the external commands the last request ran
    pc,              \* where each instance of the generated sync script is
    fd9,             \* whether the instance has $LOCK open on descriptor 9
    lock,            \* the instance holding the flock on $LOCK, 0 if none
    flag,            \* whether /tmp/sync_in_progress exists
    mounted,         \* whether the share is mounted on /mnt/unraid_data
    eff,             \* what each instance's current run has touched
    exit,            \* the exit status of each instance's last run
    blocked,         \* whether the run found the lock held
    tries,           \* the reachability probe's loop counter
    phase,           \* the static-IP rewrite alone: how often it has run
    ipA, ipB,        \* the two IPs of the two rewrites
    dhcpOrig         \* the content of dhcpcd.conf before the first rewrite

webVars == <<DEFAULT_CONFIG, configFile, hostapd, dhcpcd, composeFile, dirs,
             syncScript, reqs, req, cfg, resp, raised, done, procs>>
syncVars == <<pc, fd9, lock, flag, mounted, eff, exit, blocked, tries>>
dhcpVars == <<phase, ipA, ipB, dhcpOrig>>
vars == <<webVars, syncVars, dhcpVars>>

-----------------------------------------------------------------------------
(* Text *)

Whitespace == {" ", "\t", "\n"}

RECURSIVE LStrip(_)
LStrip(s) ==
    IF s # <<>> /\ Head(s) \in Whitespace THEN LStrip(Tail(s)) ELSE s

RECURSIVE RStrip(_)
RStrip(s) ==
    IF s # <<>> /\ s[Len(s)] \in Whitespace
    THEN RStrip(SubSeq(s, 1, Len(s) - 1)) ELSE s

\* str.lstrip() in place of str.strip()
StripLeftOnly(s) == LStrip(s)

\* str.strip()
Strip(s) == RStrip(LStrip(s))

\* str.startswith(p)
StartsWith(line, p) ==
    Len(line) >= Len(p) /\ SubSeq(line, 1, Len(p)) = p

FirstNewline(t) ==
    IF \E i \in 1..Len(t) : t[i] = "\n"
    THEN CHOOSE i \in 1..Len(t) : t[i] = "\n" /\ \A j \in 1..(i - 1) : t[j] # "\n"
    ELSE 0

\* str.splitlines(): no empty last line after a final newline
RECURSIVE SplitLines(_)
SplitLines(t) ==
    IF t = <<>> THEN <<>>
    ELSE LET i == FirstNewline(t)
         IN IF i = 0 THEN <<t>>
            ELSE <<SubSeq(t, 1, i - 1)>> \o SplitLines(SubSeq(t, i + 1, Len(t)))

\* "\n".join(lines)
RECURSIVE Join(_)
Join(lines) ==
    IF lines = <<>> THEN <<>>
    ELSE IF Len(lines) = 1 THEN lines[1]
    ELSE lines[1] \o <<"\n">> \o Join(Tail(lines))

-----------------------------------------------------------------------------
(* Files *)

Missing == [exists |-> FALSE]
File(c) == [exists |-> TRUE, content |-> c]
Script(c, m) == [exists |-> TRUE, content |-> c, mode |-> m]

-----------------------------------------------------------------------------
(* Config store *)

Sections == {"wifi", "storage", "apps", "sync"}

DefaultDocument ==
    [wifi |-> [ssid |-> <<"LustyLibrary">>, password |-> <<"lustybooks123">>,
               ip |-> <<"10.10.10.10">>],
     storage |-> [media_root |-> <<"/mnt/media">>],
     apps |-> [install_audiobookshelf |-> TRUE, install_calibre_web |-> TRUE],
     sync |-> [enable_sync |-> FALSE, unraid_ip |-> <<"192.168.0.139">>,
               share_path_audio |-> <<"/data/media/audiobook">>,
               share_path_books |-> <<"/data/media/calibre">>]]

HasAllSections(doc) == Sections \subseteq DOMAIN doc

\* load_config(): the parsed file as it is, or the (shared) default dict
load_config ==
    IF configFile.exists THEN configFile.content ELSE DEFAULT_CONFIG

\* save_config(cfg): mkdir of the parent, then open("w") and yaml.safe_dump
save_config(w, c, f) ==
    IF w.raised # "none" THEN w
    ELSE IF "save_config" \in f.fails THEN [w EXCEPT !.raised = "save_config"]
    ELSE [w EXCEPT !.configFile = File(c), !.done = Append(@, "save_config")]

-----------------------------------------------------------------------------
(* External commands *)

Cmds == {"hostapd", "dhcpcd", "docker"}
Outcomes == {"ok", "nonzero", "raise"}

\* subprocess.run outside any try: a command that cannot be launched raises
try_run_unguarded(w, cmd, f) ==
    IF f.procs[cmd] = "raise"
    THEN [w EXCEPT !.raised = cmd]
    ELSE [w EXCEPT !.procs = Append(@, [cmd |-> cmd, outcome |-> f.procs[cmd]])]

\* try: subprocess.run([...], check=False) / except Exception: pass
try_run(w, cmd, f) ==
    [w EXCEPT !.procs = Append(@, [cmd |-> cmd, outcome |-> f.procs[cmd]])]

-----------------------------------------------------------------------------
(* Network config writer *)

HostapdLine(line, c) ==
    IF StartsWith(line, <<"ssid=">>) THEN <<"ssid=">> \o c.wifi.ssid
    ELSE IF StartsWith(line, <<"wpa_passphrase=">>)
         THEN <<"wpa_passphrase=">> \o c.wifi.password
    ELSE line

HostapdText(text, c) ==
    LET lines == SplitLines(text)
    IN Join([i \in 1..Len(lines) |-> HostapdLine(lines[i], c)])

update_hostapd(w, c, f) ==
    IF w.raised # "none" \/ ~w.hostapd.exists THEN w
    ELSE IF "hostapd_write" \in f.fails THEN [w EXCEPT !.raised = "hostapd_write"]
    ELSE try_run([w EXCEPT !.hostapd = File(HostapdText(w.hostapd.content, c)),
                           !.done = Append(@, "hostapd_write")],
                 "hostapd", f)

Wlan0Block(ip) ==
    <<"\n", "interface", " ", "wlan0", "\n",
      "  ", "static ip_address=">> \o ip \o <<"/24", "\n",
      "  ", "nohook wpa_supplicant", "\n">>

IsWlan0Decl(line) == StartsWith(line, <<"interface", " ", "wlan0">>)
IsInterfaceDecl(line) == StartsWith(line, <<"interface", " ">>)

\* the loop of lines 141-150: drop every wlan0 block, keep the rest
RECURSIVE DropWlan0(_, _)
DropWlan0(lines, skip) ==
    IF lines = <<>> THEN <<>>
    ELSE LET line == Head(lines)
         IN IF IsWlan0Decl(line) THEN DropWlan0(Tail(lines), TRUE)
            ELSE LET skip2 == IF skip /\ IsInterfaceDecl(line) THEN FALSE ELSE skip
                 IN (IF skip2 THEN <<>> ELSE <<line>>) \o DropWlan0(Tail(lines), skip2)

DhcpcdText(text, ip) ==
    Join(DropWlan0(SplitLines(text), FALSE)) \o Wlan0Block(ip)

update_dhcpcd(w, c, f) ==
    IF w.raised # "none" \/ ~w.dhcpcd.exists THEN w
    ELSE IF "dhcpcd_write" \in f.fails THEN [w EXCEPT !.raised = "dhcpcd_write"]
    ELSE try_run([w EXCEPT !.dhcpcd = File(DhcpcdText(w.dhcpcd.content, c.wifi.ip)),
                           !.done = Append(@, "dhcpcd_write")],
                 "dhcpcd", f)

apply_wifi_config(w, c, f) == update_dhcpcd(update_hostapd(w, c, f), c, f)

-----------------------------------------------------------------------------
(* Orchestration manifest generator *)

AbsEntry(media_root) ==
    << <<"  ", "audiobookshelf", ":">>,
       <<"    ", "image: ghcr.io/advplyr/audiobookshelf:latest">>,
       <<"    ", "container_name: audiobookshelf">>,
       <<"    ", "ports:">>,
       <<"      ", "- ", "\"13378:80\"">>,
       <<"    ", "environment:">>,
       <<"      ", "- ", "TZ=America/Chicago">>,
       <<"      ", "- ", "AUDIOBOOKSHELF_DISABLE_UPDATES=true">>,
       <<"    ", "volumes:">>,
       <<"      ", "- ">> \o media_root \o <<"/audiobooks", ":/audiobooks">>,
       <<"      ", "- ">> \o media_root \o <<"/config/audiobookshelf", ":/config">>,
       <<"    ", "restart: unless-stopped">>,
       <<>> >>

CwebEntry(media_root) ==
    << <<"  ", "calibre-web", ":">>,
       <<"    ", "image: lscr.io/linuxserver/calibre-web:latest">>,
       <<"    ", "container_name: calibre-web">>,
       <<"    ", "ports:">>,
       <<"      ", "- ", "\"8083:8083\"">>,
       <<"    ", "environment:">>,
       <<"      ", "- ", "PUID=1000">>,
       <<"      ", "- ", "PGID=1000">>,
       <<"      ", "- ", "TZ=America/Chicago">>,
       <<"    ", "volumes:">>,
       <<"      ", "- ">> \o media_root \o <<"/books", ":/books">>,
       <<"      ", "- ">> \o media_root \o <<"/config/calibre", ":/config">>,
       <<"    ", "restart: unless-stopped">>,
       <<>> >>

\* the two entries appended in the other order
ComposeLinesCwebFirst(c) ==
    << <<"version: \"3.8\"">>, <<>>, <<"services:">> >>
    \o (IF c.apps.install_calibre_web THEN CwebEntry(c.storage.media_root) ELSE <<>>)
    \o (IF c.apps.install_audiobookshelf THEN AbsEntry(c.storage.media_root) ELSE <<>>)

ComposeLines(c) ==
    << <<"version: \"3.8\"">>, <<>>, <<"services:">> >>
    \o (IF c.apps.install_audiobookshelf THEN AbsEntry(c.storage.media_root) ELSE <<>>)
    \o (IF c.apps.install_calibre_web THEN CwebEntry(c.storage.media_root) ELSE <<>>)

MediaSubdirs == <<"audiobooks", "books", "config">>

generate_docker_compose(w, c, f) ==
    IF w.raised # "none" THEN w
    ELSE IF "compose_mkdir" \in f.fails THEN [w EXCEPT !.raised = "compose_mkdir"]
    ELSE IF "compose_write" \in f.fails
         THEN [w EXCEPT !.raised = "compose_write",
                        !.dirs = @ \cup {<<"/home/pi/library-server">>},
                        !.done = Append(@, "compose_mkdir")]
    ELSE IF "media_mkdir" \in f.fails
         THEN [w EXCEPT !.raised = "media_mkdir",
                        !.dirs = @ \cup {<<"/home/pi/library-server">>},
                        !.composeFile = File(Join(ComposeLines(c))),
                        !.done = @ \o <<"compose_mkdir", "compose_write">>]
    ELSE [w EXCEPT !.dirs = @ \cup {<<"/home/pi/library-server">>}
                          \cup {c.storage.media_root \o <<"/", MediaSubdirs[i]>> :
                                  i \in 1..Len(MediaSubdirs)},
                   !.composeFile = File(Join(ComposeLines(c))),
                   !.done = @ \o <<"compose_mkdir", "compose_write", "media_mkdir">>]

-----------------------------------------------------------------------------
(* Sync script writer *)

\* the f-string of lines 171-236; one fragment per statement of the fixed body
ScriptText(c) ==
    Join(<< <<"#!/bin/bash">>,
            <<"set -euo pipefail">>,
            <<"UNRAID_IP=\"">> \o c.sync.unraid_ip \o <<"\"">>,
            <<"UNRAID_SHARE=\"//">> \o c.sync.unraid_ip \o <<"/data\"">>,
            <<"MOUNT_POINT=\"/mnt/unraid_data\"">>,
            <<"SRC_AUDIO=\"${MOUNT_POINT}">> \o c.sync.share_path_audio \o <<"\"">>,
            <<"SRC_BOOKS=\"${MOUNT_POINT}">> \o c.sync.share_path_books \o <<"\"">>,
            <<"DST_AUDIO=\"">> \o c.storage.media_root \o <<"/audiobooks/\"">>,
            <<"DST_BOOKS=\"">> \o c.storage.media_root \o <<"/books/\"">>,
            <<"LOG=\"/var/log/sync_from_unraid.log\"">>,
            <<"LOCK=\"/run/sync_from_unraid.lock\"">>,
            <<"FLAG=\"/tmp/sync_in_progress\"">>,
            <<"carrier check || exit 0">>,
            <<"exec 9>\"$LOCK\" || true">>,
            <<"flock -n 9 || exit 0">>,
            <<"{ touch; ping; mount; mkdir; rsync; umount; rm; } >>\"$LOG\" 2>&1">>,
            <<>> >>)

\* a writer that removes the script when sync is switched off
apply_sync_config_removing(w, c, f) ==
    IF w.raised # "none" THEN w
    ELSE IF ~c.sync.enable_sync THEN [w EXCEPT !.syncScript = Missing]
    ELSE [w EXCEPT !.syncScript = Script(ScriptText(c), "0755"),
                   !.done = @ \o <<"script_write", "script_chmod">>]

apply_sync_config(w, c, f) ==
    IF w.raised # "none" THEN w
    ELSE IF ~c.sync.enable_sync THEN w
    ELSE IF "script_write" \in f.fails THEN [w EXCEPT !.raised = "script_write"]
    ELSE IF "script_chmod" \in f.fails
         THEN [w EXCEPT !.raised = "script_chmod",
                        !.syncScript = Script(ScriptText(c),
                                              IF @.exists THEN @.mode ELSE "0644"),
                        !.done = Append(@, "script_write")]
    ELSE [w EXCEPT !.syncScript = Script(ScriptText(c), "0755"),
                   !.done = @ \o <<"script_write", "script_chmod">>]

-----------------------------------------------------------------------------
(* Web form controller *)

TextKeys == {"wifi_ssid", "wifi_password", "wifi_ip", "media_root",
             "unraid_ip", "share_path_audio", "share_path_books"}
CheckboxKeys == {"install_audiobookshelf", "install_calibre_web", "enable_sync"}

\* request.form.get(key, "")
FormGet(form, key) == IF key \in DOMAIN form THEN form[key] ELSE <<>>

\* request.form.get(key, "").strip() or stored
TextField(form, key, stored) ==
    LET v == Strip(FormGet(form, key)) IN IF v # <<>> THEN v ELSE stored

\* request.form.get(key) == "true" in place of key in request.form
CheckboxByValue(form, key) == key \in DOMAIN form /\ form[key] = <<"true">>

\* key in request.form
Checkbox(form, key) == key \in DOMAIN form

\* lines 354-369
MergeForm(c, form) ==
    [c EXCEPT
       !.wifi.ssid = TextField(form, "wifi_ssid", @),
       !.wifi.password = TextField(form, "wifi_password", @),
       !.wifi.ip = TextField(form, "wifi_ip", @),
       !.storage.media_root = TextField(form, "media_root", @),
       !.apps.install_audiobookshelf = Checkbox(form, "install_audiobookshelf"),
       !.apps.install_calibre_web = Checkbox(form, "install_calibre_web"),
       !.sync.enable_sync = Checkbox(form, "enable_sync"),
       !.sync.unraid_ip = TextField(form, "unraid_ip", @),
       !.sync.share_path_audio = TextField(form, "share_path_audio", @),
       !.sync.share_path_books = TextField(form, "share_path_books", @)]

World ==
    [configFile |-> configFile, hostapd |-> hostapd, dhcpcd |-> dhcpcd,
     composeFile |-> composeFile, dirs |-> dirs, syncScript |-> syncScript,
     procs |-> <<>>, done |-> <<>>, raised |-> "none"]

\* lines 371-382, after the merge
ApplyAll(w, c, f) ==
    LET w1 == save_config(w, c, f)
        w2 == apply_wifi_config(w1, c, f)
        w3 == generate_docker_compose(w2, c, f)
        w4 == apply_sync_config(w3, c, f)
    IN IF w4.raised # "none" THEN w4 ELSE try_run(w4, "docker", f)

Commit(w) ==
    /\ configFile' = w.configFile
    /\ hostapd' = w.hostapd
    /\ dhcpcd' = w.dhcpcd
    /\ composeFile' = w.composeFile
    /\ dirs' = w.dirs
    /\ syncScript' = w.syncScript
    /\ procs' = w.procs
    /\ done' = w.done
    /\ raised' = w.raised
    /\ resp' = IF w.raised = "none" THEN "redirect" ELSE "error"

\* setup() for POST /setup
setup_post(form, f) ==
    LET loaded == load_config
    IN /\ cfg' = loaded
       /\ req' = [method |-> "POST", form |-> form, faults |-> f]
       /\ reqs' = reqs + 1
       /\ IF ~HasAllSections(loaded)
          THEN \* cfg["wifi"]... raises KeyError (TypeError on an empty file)
               /\ Commit([World EXCEPT !.raised = "merge"])
               /\ UNCHANGED DEFAULT_CONFIG
          ELSE LET c == MergeForm(loaded, form)
               IN /\ Commit(ApplyAll(World, c, f))
                  \* DEFAULT_CONFIG.copy() is shallow: without a config file the
                  \* assignments go to the nested dicts of DEFAULT_CONFIG itself
                  /\ DEFAULT_CONFIG' = IF configFile.exists THEN DEFAULT_CONFIG ELSE c

\* setup() for GET /setup
setup_get ==
    /\ cfg' = load_config
    /\ req' = [method |-> "GET", form |-> [k \in {} |-> <<>>],
               faults |-> [fails |-> {}, procs |-> [c \in Cmds |-> "ok"]]]
    /\ reqs' = reqs + 1
    /\ resp' = "form"
    /\ raised' = "none"
    /\ done' = <<>>
    /\ procs' = <<>>
    /\ UNCHANGED <<DEFAULT_CONFIG, configFile, hostapd, dhcpcd, composeFile, dirs,
                   syncScript>>

-----------------------------------------------------------------------------
(* Requests and faults the model draws from *)

MaxRequests == 2

Blank == <<" ">>
Padded == <<" ", "a", " ", "b", "\t">>
RawValues == {<<>>, Blank, Padded}

EmptyForm == [k \in {} |-> <<>>]
OneText(key, v) == [k \in {key} |-> v]
Checks(S) == [k \in S |-> <<"on">>]
FullForm == [k \in TextKeys \cup CheckboxKeys |-> IF k \in TextKeys THEN Padded ELSE <<"on">>]
SsidAndSync == [k \in {"wifi_ssid", "enable_sync"} |->
                  IF k = "wifi_ssid" THEN Padded ELSE <<"on">>]

Forms ==
    {OneText(k, v) : k \in TextKeys, v \in RawValues}
    \cup {Checks(S) : S \in SUBSET CheckboxKeys}
    \cup {FullForm}

FaultForms == {EmptyForm, SsidAndSync}

FileOps == {"save_config", "hostapd_write", "dhcpcd_write", "compose_mkdir",
            "compose_write", "media_mkdir", "script_write", "script_chmod"}

AllOk == [c \in Cmds |-> "ok"]
NoFaults == [fails |-> {}, procs |-> AllOk]

\* one file operation raises, or one command fails, or every command fails
FaultCases ==
    {[fails |-> {op}, procs |-> AllOk] : op \in FileOps}
    \cup {[fails |-> {}, procs |-> [AllOk EXCEPT ![c] = o]] :
            c \in Cmds, o \in Outcomes \ {"ok"}}
    \cup {[fails |-> {}, procs |-> [c \in Cmds |-> o]] : o \in Outcomes \ {"ok"}}

HostapdSample ==
    <<"interface=wlan0", "\n", "ssid=", "OldNet", "\n",
      "wpa_passphrase=", "oldpass", "\n", "channel=7", "\n">>

DhcpcdSample ==
    <<"hostname", "\n",
      "interface", " ", "eth0", "\n",
      "  ", "static ip_address=", "192.168.1.2", "/24", "\n",
      "interface", " ", "wlan0", "\n",
      "  ", "static ip_address=", "10.0.0.1", "/24", "\n">>

\* config.yml as an earlier run or a hand edit may have left it
InitConfigFiles ==
    {Missing, File(DefaultDocument), File(EmptyForm),
     File([s \in Sections \ {"sync"} |-> DefaultDocument[s]])}

NumInstances == 2
Instances == 1..NumInstances

SyncIdle ==
    /\ pc = [p \in Instances |-> "idle"]
    /\ fd9 = [p \in Instances |-> FALSE]
    /\ lock = 0
    /\ flag = FALSE
    /\ mounted = FALSE
    /\ eff = [p \in Instances |-> {}]
    /\ exit = [p \in Instances |-> "none"]
    /\ blocked = [p \in Instances |-> FALSE]
    /\ tries = [p \in Instances |-> 0]

DhcpIdle == phase = "web" /\ ipA = <<>> /\ ipB = <<>> /\ dhcpOrig = <<>>

Init ==
    /\ DEFAULT_CONFIG = DefaultDocument
    /\ configFile \in InitConfigFiles
    /\ \E present \in BOOLEAN :
         /\ hostapd = IF present THEN File(HostapdSample) ELSE Missing
         /\ dhcpcd = IF present THEN File(DhcpcdSample) ELSE Missing
    /\ composeFile = Missing
    /\ dirs = {}
    /\ syncScript = Missing
    /\ reqs = 0
    /\ req = [method |-> "none", form |-> EmptyForm, faults |-> NoFaults]
    /\ cfg = EmptyForm
    /\ resp = "none"
    /\ raised = "none"
    /\ done = <<>>
    /\ procs = <<>>
    /\ SyncIdle
    /\ DhcpIdle

Get ==
    /\ reqs < MaxRequests
    /\ setup_get
    /\ UNCHANGED <<syncVars, dhcpVars>>

Post ==
    /\ reqs < MaxRequests
    /\ \E form \in Forms : setup_post(form, NoFaults)
    /\ UNCHANGED <<syncVars, dhcpVars>>

PostFaulty ==
    /\ reqs < MaxRequests
    /\ \E form \in FaultForms, f \in FaultCases : setup_post(form, f)
    /\ UNCHANGED <<syncVars, dhcpVars>>

Next == Get \/ Post \/ PostFaulty

Spec == Init /\ [][Next]_vars

-----------------------------------------------------------------------------
(* The static-IP rewrite of apply_wifi_config, run twice on any file *)

MaxLines == 3

ConfLines ==
    { <<"interface", " ", "wlan0">>,
      <<"interface", " ", "wlan0", "mon">>,
      <<"interface", " ", "eth0">>,
      <<"  ", "static ip_address=", "192.168.1.2", "/24">>,
      <<"hostname">>,
      <<>> }

RECURSIVE SeqsUpTo(_, _)
SeqsUpTo(S, n) ==
    IF n = 0 THEN {<<>>}
    ELSE LET shorter == SeqsUpTo(S, n - 1)
         IN shorter \cup {Append(q, x) : q \in shorter, x \in S}

IPs == {<<"10.0.0.1">>, <<"10.0.0.2">>}

WebIdle ==
    /\ DEFAULT_CONFIG = DefaultDocument
    /\ configFile = Missing
    /\ hostapd = Missing
    /\ composeFile = Missing
    /\ dirs = {}
    /\ syncScript = Missing
    /\ reqs = 0
    /\ req = [method |-> "none", form |-> EmptyForm, faults |-> NoFaults]
    /\ cfg = EmptyForm
    /\ resp = "none"
    /\ raised = "none"
    /\ done = <<>>
    /\ procs = <<>>

InitDhcp ==
    /\ WebIdle
    /\ SyncIdle
    /\ \E lines \in SeqsUpTo(ConfLines, MaxLines), nl \in BOOLEAN :
         dhcpOrig = Join(lines) \o (IF nl THEN <<"\n">> ELSE <<>>)
    /\ dhcpcd = File(dhcpOrig)
    /\ ipA \in IPs
    /\ ipB \in IPs
    /\ phase = "start"

\* the dhcpcd half of apply_wifi_config(cfg) with cfg["wifi"]["ip"] = ip
RewriteStaticIp(ip) ==
    LET w == update_dhcpcd(World, [DefaultDocument EXCEPT !.wifi.ip = ip], NoFaults)
    IN /\ dhcpcd' = w.dhcpcd
       /\ procs' = w.procs
       /\ done' = w.done

RewriteFirst ==
    /\ phase = "start"
    /\ RewriteStaticIp(ipA)
    /\ phase' = "once"
    /\ UNCHANGED <<DEFAULT_CONFIG, configFile, hostapd, composeFile, dirs, syncScript,
                   reqs, req, cfg, resp, raised, syncVars, ipA, ipB, dhcpOrig>>

RewriteSecond ==
    /\ phase = "once"
    /\ RewriteStaticIp(ipB)
    /\ phase' = "twice"
    /\ UNCHANGED <<DEFAULT_CONFIG, configFile, hostapd, composeFile, dirs, syncScript,
                   reqs, req, cfg, resp, raised, syncVars, ipA, ipB, dhcpOrig>>

NextDhcp == RewriteFirst \/ RewriteSecond

SpecDhcp == InitDhcp /\ [][NextDhcp]_vars

-----------------------------------------------------------------------------
(* Reading a dhcpcd.conf: declarations, blocks and their owners *)

IsDecl(line) == Len(line) >= 3 /\ line[1] = "interface" /\ line[2] = " "

\* a declaration of wlan0 itself, not of an interface whose name begins with it
IsTargetDecl(line) ==
    /\ IsDecl(line)
    /\ line[3] = "wlan0"
    /\ (Len(line) = 3 \/ line[4] \in Whitespace)

\* the declaration whose block line i of L belongs to, 0 before any declaration
Owner(L, i) ==
    IF \E j \in 1..i : IsDecl(L[j])
    THEN CHOOSE j \in 1..i : IsDecl(L[j]) /\ \A k \in (j + 1)..i : ~IsDecl(L[k])
    ELSE 0

\* line i of L belongs to another interface's block, or precedes the first wlan0 block
Protected(L, i) ==
    \/ \A j \in 1..i : ~IsTargetDecl(L[j])
    \/ (Owner(L, i) > 0 /\ ~IsTargetDecl(L[Owner(L, i)]))

StaticLine(ip) == <<"  ", "static ip_address=">> \o ip \o <<"/24">>
IsStaticLine(line) == StartsWith(line, <<"  ", "static ip_address=">>)

OneBlockWithIp(F, ip) ==
    /\ Cardinality({i \in 1..Len(F) : IsTargetDecl(F[i])}) = 1
    /\ \A i \in 1..Len(F) :
         (Owner(F, i) > 0 /\ IsTargetDecl(F[Owner(F, i)]) /\ IsStaticLine(F[i]))
           => F[i] = StaticLine(ip)
    /\ \E i \in 1..Len(F) :
         Owner(F, i) > 0 /\ IsTargetDecl(F[Owner(F, i)]) /\ F[i] = StaticLine(ip)

ProtectedLinesKept(O, F) ==
    \A i \in 1..Len(O) : Protected(O, i) => \E j \in 1..Len(F) : F[j] = O[i]

\* C5: after two rewrites of any file (first ipA, then ipB) there is exactly one
\* 'interface wlan0' block, it carries ipB, and every line of another interface's
\* block or before the first wlan0 block is still present.
C5_TwoRewritesOneBlock ==
    phase = "twice" =>
      /\ OneBlockWithIp(SplitLines(dhcpcd.content), ipB)
      /\ ProtectedLinesKept(SplitLines(dhcpOrig), SplitLines(dhcpcd.content))

\* The same for the files in which no other interface's name begins with "wlan0".
NoPrefixSibling(O) ==
    \A i \in 1..Len(O) : IsWlan0Decl(O[i]) => IsTargetDecl(O[i])

C5_HoldsWithoutPrefixSibling ==
    (phase = "twice" /\ NoPrefixSibling(SplitLines(dhcpOrig))) =>
      /\ OneBlockWithIp(SplitLines(dhcpcd.content), ipB)
      /\ ProtectedLinesKept(SplitLines(dhcpOrig), SplitLines(dhcpcd.content))

-----------------------------------------------------------------------------
(* The generated sync script, one process per running instance *)

\* the steps inside { ... } >>"$LOG" 2>&1, after the lock is taken
BlockSteps == {"open_log", "touch", "echo_start", "ping", "check_mount", "mkdir_mp",
               "mount", "mkdir_dst", "rsync_audio", "rsync_books", "umount",
               "rm_flag", "echo_done"}

MaxPings == 5

Goto(p, step) == pc' = [pc EXCEPT ![p] = step]

\* the process ends: descriptor 9 is closed, which drops its flock
Exit(p, status) ==
    /\ pc' = [pc EXCEPT ![p] = "exited"]
    /\ exit' = [exit EXCEPT ![p] = status]
    /\ fd9' = [fd9 EXCEPT ![p] = FALSE]
    /\ lock' = IF lock = p THEN 0 ELSE lock

\* an instance is launched (by a timer or a link-state watcher)
Start(p) ==
    /\ pc[p] \in {"idle", "exited"}
    /\ Goto(p, "carrier")
    /\ eff' = [eff EXCEPT ![p] = {}]
    /\ exit' = [exit EXCEPT ![p] = "none"]
    /\ blocked' = [blocked EXCEPT ![p] = FALSE]
    /\ tries' = [tries EXCEPT ![p] = 0]
    /\ UNCHANGED <<fd9, lock, flag, mounted>>

\* lines 190-193: exit 0 unless the carrier file reads 1
CarrierCheck(p) ==
    /\ pc[p] = "carrier"
    /\ \E up \in BOOLEAN :
         IF up THEN Goto(p, "open_lock") /\ UNCHANGED <<exit, fd9, lock>>
         ELSE Exit(p, "0")
    /\ UNCHANGED <<flag, mounted, eff, blocked, tries>>

\* line 195: exec 9>"$LOCK" || true
OpenLock(p) ==
    /\ pc[p] = "open_lock"
    /\ \E ok \in BOOLEAN : fd9' = [fd9 EXCEPT ![p] = ok]
    /\ Goto(p, "flock")
    /\ UNCHANGED <<lock, flag, mounted, eff, exit, blocked, tries>>

\* flock -n 9 || true: the instance goes on whoever holds the lock
FlockUnguarded(p) ==
    /\ pc[p] = "flock"
    /\ lock' = IF fd9[p] /\ lock = 0 THEN p ELSE lock
    /\ Goto(p, "open_log")
    /\ UNCHANGED <<fd9, exit, blocked, flag, mounted, eff, tries>>

\* line 196: flock -n 9 || exit 0
Flock(p) ==
    /\ pc[p] = "flock"
    /\ IF fd9[p] /\ lock = 0
       THEN /\ lock' = p
            /\ Goto(p, "open_log")
            /\ UNCHANGED <<fd9, exit, blocked>>
       ELSE /\ Exit(p, "0")
            /\ blocked' = [blocked EXCEPT ![p] = fd9[p]]
    /\ UNCHANGED <<flag, mounted, eff, tries>>

\* a command that ends the script under set -e when it fails
Fatal(p) == Exit(p, "1")

\* line 235: the block's output is appended to $LOG
OpenLog(p) ==
    /\ pc[p] = "open_log"
    /\ \E ok \in BOOLEAN :
         IF ok THEN /\ Goto(p, "touch")
                    /\ eff' = [eff EXCEPT ![p] = @ \cup {"log"}]
                    /\ UNCHANGED <<exit, fd9, lock>>
         ELSE Fatal(p) /\ UNCHANGED eff
    /\ UNCHANGED <<flag, mounted, blocked, tries>>

\* line 199: touch "$FLAG"
Touch(p) ==
    /\ pc[p] = "touch"
    /\ \E ok \in BOOLEAN :
         IF ok THEN /\ Goto(p, "echo_start")
                    /\ flag' = TRUE
                    /\ eff' = [eff EXCEPT ![p] = @ \cup {"flag"}]
                    /\ UNCHANGED <<exit, fd9, lock>>
         ELSE Fatal(p) /\ UNCHANGED <<flag, eff>>
    /\ UNCHANGED <<mounted, blocked, tries>>

\* lines 200-201: the start marker (a write to the log is taken to succeed)
EchoStart(p) ==
    /\ pc[p] = "echo_start"
    /\ Goto(p, "ping")
    /\ UNCHANGED <<fd9, lock, flag, mounted, eff, exit, blocked, tries>>

\* lines 203-208: up to five probes, then on regardless
Ping(p) ==
    /\ pc[p] = "ping"
    /\ \E reachable \in BOOLEAN :
         IF reachable \/ tries[p] + 1 >= MaxPings
         THEN Goto(p, "check_mount") /\ UNCHANGED tries
         ELSE tries' = [tries EXCEPT ![p] = @ + 1] /\ UNCHANGED pc
    /\ UNCHANGED <<fd9, lock, flag, mounted, eff, exit, blocked>>

\* line 210: if ! mountpoint -q "$MOUNT_POINT"
CheckMount(p) ==
    /\ pc[p] = "check_mount"
    /\ Goto(p, IF mounted THEN "mkdir_dst" ELSE "mkdir_mp")
    /\ UNCHANGED <<fd9, lock, flag, mounted, eff, exit, blocked, tries>>

\* lines 211-212: echo, mkdir -p "$MOUNT_POINT"
MkdirMountPoint(p) ==
    /\ pc[p] = "mkdir_mp"
    /\ \E ok \in BOOLEAN :
         IF ok THEN Goto(p, "mount") /\ UNCHANGED <<exit, fd9, lock>>
         ELSE Fatal(p)
    /\ UNCHANGED <<flag, mounted, eff, blocked, tries>>

\* lines 213-217: mount ... || { echo; rm -f "$FLAG"; exit 0; }
Mount(p) ==
    /\ pc[p] = "mount"
    /\ \E ok \in BOOLEAN :
         IF ok THEN /\ Goto(p, "mkdir_dst")
                    /\ mounted' = TRUE
                    /\ eff' = [eff EXCEPT ![p] = @ \cup {"mount"}]
                    /\ UNCHANGED <<exit, fd9, lock, flag>>
         ELSE /\ Exit(p, "0")
              /\ flag' = FALSE
              /\ UNCHANGED <<mounted, eff>>
    /\ UNCHANGED <<blocked, tries>>

\* line 220: mkdir -p "$DST_AUDIO" "$DST_BOOKS"
MkdirDst(p) ==
    /\ pc[p] = "mkdir_dst"
    /\ \E ok \in BOOLEAN :
         IF ok THEN Goto(p, "rsync_audio") /\ UNCHANGED <<exit, fd9, lock>>
         ELSE Fatal(p)
    /\ UNCHANGED <<flag, mounted, eff, blocked, tries>>

\* lines 222-226: rsync ... || true, twice
Rsync(p) ==
    /\ pc[p] \in {"rsync_audio", "rsync_books"}
    /\ Goto(p, IF pc[p] = "rsync_audio" THEN "rsync_books" ELSE "umount")
    /\ UNCHANGED <<fd9, lock, flag, mounted, eff, exit, blocked, tries>>

\* lines 228-231: if mountpoint -q; then umount ... || true
Umount(p) ==
    /\ pc[p] = "umount"
    /\ \E ok \in BOOLEAN :
         /\ mounted' = IF mounted /\ ok THEN FALSE ELSE mounted
         /\ eff' = [eff EXCEPT ![p] = IF mounted THEN @ \cup {"mount"} ELSE @]
    /\ Goto(p, "rm_flag")
    /\ UNCHANGED <<fd9, lock, flag, exit, blocked, tries>>

\* line 233: rm -f "$FLAG"
RmFlag(p) ==
    /\ pc[p] = "rm_flag"
    /\ flag' = FALSE
    /\ Goto(p, "echo_done")
    /\ UNCHANGED <<fd9, lock, mounted, eff, exit, blocked, tries>>

\* line 234: the end marker, the last command of the script
EchoDone(p) ==
    /\ pc[p] = "echo_done"
    /\ Exit(p, "0")
    /\ UNCHANGED <<flag, mounted, eff, blocked, tries>>

InitSync ==
    /\ WebIdle
    /\ dhcpcd = Missing
    /\ DhcpIdle
    /\ pc = [p \in Instances |-> "idle"]
    /\ fd9 = [p \in Instances |-> FALSE]
    /\ lock = 0
    /\ flag = FALSE
    /\ mounted \in BOOLEAN
    /\ eff = [p \in Instances |-> {}]
    /\ exit = [p \in Instances |-> "none"]
    /\ blocked = [p \in Instances |-> FALSE]
    /\ tries = [p \in Instances |-> 0]

SyncFrame == UNCHANGED <<webVars, dhcpVars>>

NextSync ==
    \E p \in Instances :
         \/ Start(p) /\ SyncFrame
         \/ CarrierCheck(p) /\ SyncFrame
         \/ OpenLock(p) /\ SyncFrame
         \/ Flock(p) /\ SyncFrame
         \/ OpenLog(p) /\ SyncFrame
         \/ Touch(p) /\ SyncFrame
         \/ EchoStart(p) /\ SyncFrame
         \/ Ping(p) /\ SyncFrame
         \/ CheckMount(p) /\ SyncFrame
         \/ MkdirMountPoint(p) /\ SyncFrame
         \/ Mount(p) /\ SyncFrame
         \/ MkdirDst(p) /\ SyncFrame
         \/ Rsync(p) /\ SyncFrame
         \/ Umount(p) /\ SyncFrame
         \/ RmFlag(p) /\ SyncFrame
         \/ EchoDone(p) /\ SyncFrame

SpecSync == InitSync /\ [][NextSync]_vars

-----------------------------------------------------------------------------
(* Claims about the sync script *)

InBlock(p) == pc[p] \in BlockSteps

\* C7: at most one instance at a time is inside the steps after the lock is
\* taken, and an instance that found the lock held has exited with status 0
\* without touching the flag file, the log or the mount.
C7_MutualExclusion ==
    /\ Cardinality({p \in Instances : InBlock(p)}) <= 1
    /\ \A p \in Instances :
         blocked[p] => (pc[p] = "exited" /\ exit[p] = "0" /\ eff[p] = {})

\* one instance is copying while another has found the lock held and left
C7_Witness ==
    \E p, q \in Instances :
      /\ pc[p] = "rsync_books" /\ "flag" \in eff[p] /\ "mount" \in eff[p]
      /\ blocked[q] /\ pc[q] = "exited"

\* C10: a run that created the flag file has removed it by the time it ends, so
\* with no run in progress the flag file of an ended run is gone.
C10_FlagRemovedOnExit ==
    \A p \in Instances :
      (pc[p] = "exited" /\ "flag" \in eff[p] /\ \A q \in Instances : ~InBlock(q))
        => ~flag

-----------------------------------------------------------------------------
(* Claims about the web form controller *)

Range(q) == {q[i] : i \in 1..Len(q)}

Posted == req.method = "POST"
Saved == Posted /\ "save_config" \in Range(done)

\* C1: while the config file does not exist, load_config() returns exactly the
\* documented default document, whatever earlier POSTs submitted.
C1_DefaultsWhenNoFile ==
    ~configFile.exists => load_config = DefaultDocument

Attempted(op) ==
    CASE op = "hostapd_write" -> hostapd.exists
      [] op = "dhcpcd_write" -> dhcpcd.exists
      [] op \in {"script_write", "script_chmod"} -> "enable_sync" \in DOMAIN req.form
      [] OTHER -> TRUE

TextOf(doc, key) ==
    CASE key = "wifi_ssid" -> doc.wifi.ssid
      [] key = "wifi_password" -> doc.wifi.password
      [] key = "wifi_ip" -> doc.wifi.ip
      [] key = "media_root" -> doc.storage.media_root
      [] key = "unraid_ip" -> doc.sync.unraid_ip
      [] key = "share_path_audio" -> doc.sync.share_path_audio
      [] key = "share_path_books" -> doc.sync.share_path_books

FlagOf(doc, key) ==
    CASE key = "install_audiobookshelf" -> doc.apps.install_audiobookshelf
      [] key = "install_calibre_web" -> doc.apps.install_calibre_web
      [] key = "enable_sync" -> doc.sync.enable_sync

Submitted(key) == IF key \in DOMAIN req.form THEN req.form[key] ELSE <<>>

AllWhitespace(v) == \A i \in 1..Len(v) : v[i] \in Whitespace

\* t is v without its leading and trailing whitespace
IsTrimOf(t, v) ==
    /\ t # <<>>
    /\ t[1] \notin Whitespace
    /\ t[Len(t)] \notin Whitespace
    /\ \E i \in 1..Len(v) :
         /\ i + Len(t) - 1 <= Len(v)
         /\ SubSeq(v, i, i + Len(t) - 1) = t
         /\ AllWhitespace(SubSeq(v, 1, i - 1))
         /\ AllWhitespace(SubSeq(v, i + Len(t), Len(v)))

\* C3: each text field persisted by a POST is the submitted value trimmed when
\* that is non-empty, and otherwise the value the document held before the POST.
C3_TextFieldsMerged ==
    Saved =>
      \A k \in TextKeys :
        IF AllWhitespace(Submitted(k))
        THEN TextOf(configFile.content, k) = TextOf(cfg, k)
        ELSE IsTrimOf(TextOf(configFile.content, k), Submitted(k))

\* a value set by an earlier POST survives a whitespace-only submission, and
\* a padded submission is stored trimmed
C3_Witness ==
    /\ Saved /\ reqs = 2
    /\ \E k \in TextKeys :
         /\ Submitted(k) = Blank
         /\ TextOf(configFile.content, k) = <<"a", " ", "b">>
         /\ TextOf(cfg, k) = <<"a", " ", "b">>

\* C4: each checkbox flag persisted by a POST is true exactly when its key is in
\* the submission, whatever the flag was before.
C4_CheckboxesFollowPresence ==
    Saved =>
      \A k \in CheckboxKeys : FlagOf(configFile.content, k) = (k \in DOMAIN req.form)

\* install_calibre_web was true, the key was omitted, and the flag is now false
C4_Witness ==
    /\ Saved
    /\ FlagOf(cfg, "install_calibre_web")
    /\ "install_calibre_web" \notin DOMAIN req.form
    /\ ~FlagOf(configFile.content, "install_calibre_web")
    /\ FlagOf(configFile.content, "enable_sync")
    /\ ~FlagOf(cfg, "enable_sync")

\* C6: a POST whose document has enable_sync false and that reaches
\* apply_sync_config leaves the sync script as it was: absent stays absent, and
\* an existing script keeps its content and mode.
C6_ScriptUntouchedWhenDisabled ==
    [][(/\ reqs' = reqs + 1
        /\ req'.method = "POST"
        /\ "media_mkdir" \in Range(done')
        /\ ~FlagOf(configFile'.content, "enable_sync"))
         => syncScript' = syncScript]_vars

\* a script written by an earlier POST outlives a POST with sync off that
\* changed a value the script depends on
C6_Witness ==
    /\ Posted /\ resp = "redirect"
    /\ "enable_sync" \notin DOMAIN req.form
    /\ syncScript.exists
    /\ syncScript.mode = "0755"
    /\ syncScript.content # ScriptText(configFile.content)
    /\ syncScript.content = ScriptText(DefaultDocument)

\* C8: the document a request works on always has all four sections.
C8_AllSectionsLoaded ==
    reqs > 0 => HasAllSections(cfg)

\* the names of the service entries of a manifest, in order
RECURSIVE ServiceNames(_)
ServiceNames(lines) ==
    IF lines = <<>> THEN <<>>
    ELSE LET l == Head(lines)
         IN (IF Len(l) = 3 /\ l[1] = "  " /\ l[3] = ":" THEN <<l[2]>> ELSE <<>>)
            \o ServiceNames(Tail(lines))

IsListItem(l) == Len(l) >= 2 /\ l[1] = "      " /\ l[2] = "- "

\* the list items under a "volumes:" key
VolumeLines(lines) ==
    {i \in 1..Len(lines) :
       /\ IsListItem(lines[i])
       /\ \E j \in 1..(i - 1) :
            /\ lines[j] = <<"    ", "volumes:">>
            /\ \A k \in (j + 1)..i : IsListItem(lines[k])}

ExpectedServices(doc) ==
    (IF doc.apps.install_audiobookshelf THEN <<"audiobookshelf">> ELSE <<>>)
    \o (IF doc.apps.install_calibre_web THEN <<"calibre-web">> ELSE <<>>)

\* C9: the manifest written for a document has a service entry for exactly the
\* enabled apps, audiobookshelf before calibre-web, and every volume mount of an
\* entry is rooted at the document's media_root.
C9_ManifestMatchesFlags ==
    (Posted /\ "compose_write" \in Range(done)) =>
      LET lines == SplitLines(composeFile.content)
          doc == configFile.content
      IN /\ ServiceNames(lines) = ExpectedServices(doc)
         /\ Cardinality(VolumeLines(lines)) = 2 * Len(ExpectedServices(doc))
         /\ \A i \in VolumeLines(lines) :
              /\ SubSeq(lines[i], 3, 2 + Len(doc.storage.media_root))
                   = doc.storage.media_root
              /\ Len(lines[i]) = 4 + Len(doc.storage.media_root)
              /\ lines[i][Len(lines[i]) - 1] \in
                   {"/audiobooks", "/config/audiobookshelf", "/books", "/config/calibre"}

\* both apps enabled with a media_root other than the default
C9_Witness ==
    /\ Posted /\ "compose_write" \in Range(done)
    /\ ServiceNames(SplitLines(composeFile.content)) = <<"audiobookshelf", "calibre-web">>
    /\ configFile.content.storage.media_root = <<"a", " ", "b">>

====
